---- MODULE Spec2Model ----
(***************************************************************************)
(* Model of the moderation endpoint of good-speak,                         *)
(* src/good-speak/src/app/api/moderate/route.js (export async function     *)
(* POST).  Each invocation of POST is a process that advances from one     *)
(* `await` to the next; several invocations may be in flight at once.      *)
(*                                                                         *)
(* JSON / JavaScript values are records [k |-> kind, v |-> payload]:       *)
(*   undefined, null, num (toxicity scores are in thousandths, so 0.7 is   *)
(*   700 and 0.0 is 0), str, obj (payload: a function from field names to  *)
(*   values) and arr (payload: a sequence of values).                      *)
(***************************************************************************)
EXTENDS Integers, Sequences, FiniteSets, TLC

\* ------------------------------------------------------------------ bounds
\* number of invocations of POST that may be in flight together
NumReqs == 2
\* requests one client sends in a behaviour of Spec
MaxServed == 2

\* ------------------------------------------------------- program constants
\* const THRESHOLD = 0.7, in thousandths
THRESHOLD == 700
\* "Clients are limited to 100 requests per hour" (page.js)
RATE_LIMIT == 100

Reqs == 1..NumReqs

\* --------------------------------------------------------- JavaScript values
Undefined == [k |-> "undefined", v |-> 0]
Null == [k |-> "null", v |-> 0]
Num(n) == [k |-> "num", v |-> n]
Str(s) == [k |-> "str", v |-> s]
Obj(f) == [k |-> "obj", v |-> f]
Arr(s) == [k |-> "arr", v |-> s]
EmptyObj == Obj([x \in {} |-> Undefined])

\* ToBoolean: undefined, null, 0 and "" are falsy, objects and arrays truthy
Truthy(x) ==
  CASE x.k = "undefined" -> FALSE
    [] x.k = "null" -> FALSE
    [] x.k = "num" -> x.v # 0
    [] x.k = "str" -> x.v # ""
    [] OTHER -> TRUE

\* a || b
Or(a, b) == IF Truthy(a) THEN a ELSE b

\* x.key for x neither null nor undefined: a primitive has no own field
Get(x, key) ==
  IF x.k = "obj" /\ key \in DOMAIN x.v THEN x.v[key] ELSE Undefined

\* x?.key
OptGet(x, key) ==
  IF x.k \in {"undefined", "null"} THEN Undefined ELSE Get(x, key)

\* x?.[0]
OptFirst(x) ==
  IF x.k = "arr" /\ Len(x.v) >= 1 THEN x.v[1] ELSE Undefined

\* x > n for a number n: a non-number met here compares as NaN, never greater
JsGt(x, n) == x.k = "num" /\ x.v > n

\* ------------------------------------------------------------------ inputs
\* what `await request.json()` can meet: a body that is not JSON, or a JSON value
Unparseable == [k |-> "unparseable", v |-> 0]

RequestBodies ==
  { Unparseable,
    Null,
    EmptyObj,
    Obj([username |-> Str("u1")]),
    Obj([message |-> Str("hi")]),
    Obj([username |-> Str(""), message |-> Str("hi")]),
    Obj([username |-> Str("u1"), message |-> Str("")]),
    Obj([username |-> Str("u1"), message |-> Str("hi")]) }

\* client identifiers that send requests
Usernames == {"u1"}

\* scores of the scoring service, in thousandths: 0.0, 0.05, 0.7, 0.701, 0.956
Scores == {0, 50, 700, 701, 956}

ScoreBody(x) ==
  Obj([attributeScores |-> Obj([TOXICITY |-> Obj([summaryScore |-> x])])])

\* what `await p_resp.json()` can yield (fetch resolves on any HTTP status)
PerspectiveBodies ==
  { Null,
    EmptyObj,
    Obj([error |-> Obj([code |-> Num(400)])]),
    Obj([attributeScores |-> EmptyObj]),
    Obj([attributeScores |-> Obj([TOXICITY |-> EmptyObj])]),
    ScoreBody(Null),
    ScoreBody(EmptyObj),
    ScoreBody(Obj([value |-> Null])) }
  \cup { ScoreBody(Obj([value |-> Num(n)])) : n \in Scores }

Choice(x) == Obj([message |-> Obj([content |-> x])])

\* what `await xai_resp.json()` can yield
XaiBodies ==
  { Null,
    Obj([error |-> Str("unauthorized")]),
    Obj([choices |-> Arr(<<>>)]),
    Obj([choices |-> Arr(<<EmptyObj>>)]),
    Obj([choices |-> Arr(<<Obj([message |-> EmptyObj])>>)]),
    Obj([choices |-> Arr(<<Choice(Null)>>)]),
    Obj([choices |-> Arr(<<Choice(Str(""))>>)]),
    Obj([choices |-> Arr(<<Choice(Str("polite"))>>)]),
    Obj([choices |-> Arr(<<Choice(Str("")), Choice(Str("polite"))>>)]) }

\* ------------------------------------------------------------------- state
VARIABLES
  pc,          \* where each invocation stands: the await it is suspended at
  request,     \* the HTTP request body each invocation was called with
  username,    \* const { username, message } = body || {}
  message,
  p_data,      \* const p_data = await p_resp.json()
  toxicity,    \* const toxicity
  flagged,     \* let flagged
  suggestion,  \* let suggestion
  xai_data,    \* const xai_data = await xai_resp.json()
  err,         \* the exception the catch clause caught, "none" when none
  response,    \* the NextResponse the invocation returned
  p_calls,     \* fetch calls issued to the scoring service, per invocation
  xai_calls,   \* fetch calls issued to the generation service, per invocation
  served       \* requests received from each client identifier, this hour

vars == <<pc, request, username, message, p_data, toxicity, flagged,
          suggestion, xai_data, err, response, p_calls, xai_calls, served>>

\* ---------------------------------------------------------------- responses
NoResponse ==
  [status |-> 0, error |-> "", details |-> "", flagged |-> FALSE,
   toxicity |-> Undefined, suggestion |-> Undefined]

\* NextResponse.json({ flagged, toxicity, suggestion }), status 200
Verdict(f, t, s) ==
  [status |-> 200, error |-> "", details |-> "", flagged |-> f,
   toxicity |-> t, suggestion |-> s]

\* NextResponse.json({ error: 'Missing username or message' }, { status: 400 })
MissingFieldResponse ==
  [status |-> 400, error |-> "Missing username or message", details |-> "",
   flagged |-> FALSE, toxicity |-> Undefined, suggestion |-> Undefined]

\* NextResponse.json({ error: 'Invalid request', details: String(err) }, { status: 400 })
InvalidRequestResponse(e) ==
  [status |-> 400, error |-> "Invalid request", details |-> e,
   flagged |-> FALSE, toxicity |-> Undefined, suggestion |-> Undefined]

\* ------------------------------------------------------- the handler's logic
\* a check that tests only for absent fields: an empty string passes
MissingFieldAbsentOnly(u, m) == u.k = "undefined" \/ m.k = "undefined"

\* if (!username || !message)
MissingField(u, m) == ~Truthy(u) \/ ~Truthy(m)

\* the same extraction defaulting to 1.0: fail-closed on a missing score
ExtractToxicityFailClosed(pd) ==
  Or(OptGet(Get(Or(Get(Or(Get(Or(pd, EmptyObj),
                              "attributeScores"), EmptyObj),
                       "TOXICITY"), EmptyObj),
                "summaryScore"),
            "value"),
     Num(1000))

\* (((p_data || {}).attributeScores || {}).TOXICITY || {}).summaryScore?.value || 0.0
ExtractToxicity(pd) ==
  Or(OptGet(Get(Or(Get(Or(Get(Or(pd, EmptyObj),
                              "attributeScores"), EmptyObj),
                       "TOXICITY"), EmptyObj),
                "summaryScore"),
            "value"),
     Num(0))

\* the comparison written toxicity >= THRESHOLD
IsToxicInclusive(t) == t.k = "num" /\ t.v >= THRESHOLD

\* if (toxicity > THRESHOLD)
IsToxic(t) == JsGt(t, THRESHOLD)

\* the extraction reading the last completion choice instead of the first
ExtractSuggestionLast(xd) ==
  LET cs == OptGet(xd, "choices")
      c == IF cs.k = "arr" /\ Len(cs.v) >= 1 THEN cs.v[Len(cs.v)] ELSE Undefined
  IN Or(OptGet(OptGet(c, "message"), "content"), Null)

\* xai_data?.choices?.[0]?.message?.content || null
ExtractSuggestion(xd) ==
  Or(OptGet(OptGet(OptFirst(OptGet(xd, "choices")), "message"), "content"),
     Null)

\* toxicity kept in one module-level variable that every invocation writes
StoreToxicityShared(r, t) == [q \in Reqs |-> t]

\* const toxicity = ...: a binding local to the invocation
StoreToxicity(r, t) == [toxicity EXCEPT ![r] = t]

\* a fetch that is issued, and issued again as a retry
IssueCallWithRetry(calls, r) == [calls EXCEPT ![r] = @ + 2]

\* one fetch(...) call issued by invocation r
IssueCall(calls, r) == [calls EXCEPT ![r] = @ + 1]

\* the client identifier a request body carries, "" when it carries none
ClientOf(b) ==
  IF b.k = "obj" /\ "username" \in DOMAIN b.v /\ b.v.username.k = "str"
  THEN b.v.username.v ELSE ""

\* ---------------------------------------------------------------------- Init
Init ==
  /\ pc = [r \in Reqs |-> "idle"]
  /\ request = [r \in Reqs |-> Undefined]
  /\ username = [r \in Reqs |-> Undefined]
  /\ message = [r \in Reqs |-> Undefined]
  /\ p_data = [r \in Reqs |-> Undefined]
  /\ toxicity = [r \in Reqs |-> Undefined]
  /\ flagged = [r \in Reqs |-> FALSE]
  /\ suggestion = [r \in Reqs |-> Undefined]
  /\ xai_data = [r \in Reqs |-> Undefined]
  /\ err = [r \in Reqs |-> "none"]
  /\ response = [r \in Reqs |-> NoResponse]
  /\ p_calls = [r \in Reqs |-> 0]
  /\ xai_calls = [r \in Reqs |-> 0]
  /\ served = [u \in Usernames |-> 0]

\* ------------------------------------------------------------------- actions
\* catch (err) { return NextResponse.json({error: 'Invalid request', ...}, {status: 400}) }
Catch(r, e) ==
  /\ err' = [err EXCEPT ![r] = e]
  /\ response' = [response EXCEPT ![r] = InvalidRequestResponse(e)]
  /\ pc' = [pc EXCEPT ![r] = "done"]

\* the framework calls POST(request); the handler suspends at request.json().
\* cap bounds the requests one client sends.
Receive(r, b, cap) ==
  /\ pc[r] = "idle"
  /\ \A u \in Usernames : ClientOf(b) = u => served[u] < cap
  /\ request' = [request EXCEPT ![r] = b]
  /\ served' = [u \in Usernames |->
                  IF ClientOf(b) = u THEN served[u] + 1 ELSE served[u]]
  /\ pc' = [pc EXCEPT ![r] = "json"]
  /\ UNCHANGED <<username, message, p_data, toxicity, flagged, suggestion,
                 xai_data, err, response, p_calls, xai_calls>>

\* request.json() settles: lines 11-28, up to the suspension at the first fetch
ParseBody(r) ==
  /\ pc[r] = "json"
  /\ IF request[r] = Unparseable
     THEN /\ Catch(r, "SyntaxError: request body")
          /\ UNCHANGED <<username, message, p_calls>>
     ELSE LET body == Or(request[r], EmptyObj)
              u == Get(body, "username")
              m == Get(body, "message")
          IN /\ username' = [username EXCEPT ![r] = u]
             /\ message' = [message EXCEPT ![r] = m]
             /\ IF MissingField(u, m)
                THEN /\ response' = [response EXCEPT ![r] = MissingFieldResponse]
                     /\ pc' = [pc EXCEPT ![r] = "done"]
                     /\ UNCHANGED <<p_calls, err>>
                ELSE /\ p_calls' = IssueCall(p_calls, r)
                     /\ pc' = [pc EXCEPT ![r] = "p_fetch"]
                     /\ UNCHANGED <<response, err>>
  /\ UNCHANGED <<request, p_data, toxicity, flagged, suggestion, xai_data,
                 xai_calls, served>>

\* fetch(perspective_url) settles: it rejects on a network failure, else the
\* handler suspends at p_resp.json()
PFetchDone(r, ok) ==
  /\ pc[r] = "p_fetch"
  /\ IF ok
     THEN /\ pc' = [pc EXCEPT ![r] = "p_json"]
          /\ UNCHANGED <<err, response>>
     ELSE Catch(r, "TypeError: fetch failed (scoring)")
  /\ UNCHANGED <<request, username, message, p_data, toxicity, flagged,
                 suggestion, xai_data, p_calls, xai_calls, served>>

\* p_resp.json() settles: lines 29-49 (to the second fetch) or 29-55
PJsonDone(r, d) ==
  /\ pc[r] = "p_json"
  /\ IF d = Unparseable
     THEN /\ Catch(r, "SyntaxError: scoring response")
          /\ UNCHANGED <<p_data, toxicity, flagged, suggestion, xai_calls>>
     ELSE LET t == ExtractToxicity(d)
          IN /\ p_data' = [p_data EXCEPT ![r] = d]
             /\ toxicity' = StoreToxicity(r, t)
             /\ suggestion' = [suggestion EXCEPT ![r] = Null]
             /\ IF IsToxic(t)
                THEN /\ flagged' = [flagged EXCEPT ![r] = TRUE]
                     /\ xai_calls' = IssueCall(xai_calls, r)
                     /\ pc' = [pc EXCEPT ![r] = "xai_fetch"]
                     /\ UNCHANGED <<response, err>>
                ELSE /\ flagged' = [flagged EXCEPT ![r] = FALSE]
                     /\ response' = [response EXCEPT ![r] = Verdict(FALSE, t, Null)]
                     /\ pc' = [pc EXCEPT ![r] = "done"]
                     /\ UNCHANGED <<xai_calls, err>>
  /\ UNCHANGED <<request, username, message, xai_data, p_calls, served>>

\* fetch('https://api.xai.com/v1/chat/completions') settles
XaiFetchDone(r, ok) ==
  /\ pc[r] = "xai_fetch"
  /\ IF ok
     THEN /\ pc' = [pc EXCEPT ![r] = "xai_json"]
          /\ UNCHANGED <<err, response>>
     ELSE Catch(r, "TypeError: fetch failed (generation)")
  /\ UNCHANGED <<request, username, message, p_data, toxicity, flagged,
                 suggestion, xai_data, p_calls, xai_calls, served>>

\* xai_resp.json() settles: lines 50-55
XaiJsonDone(r, d) ==
  /\ pc[r] = "xai_json"
  /\ IF d = Unparseable
     THEN /\ Catch(r, "SyntaxError: generation response")
          /\ UNCHANGED <<xai_data, suggestion>>
     ELSE LET s == ExtractSuggestion(d)
          IN /\ xai_data' = [xai_data EXCEPT ![r] = d]
             /\ suggestion' = [suggestion EXCEPT ![r] = s]
             /\ response' = [response EXCEPT ![r] =
                               Verdict(flagged[r], toxicity[r], s)]
             /\ pc' = [pc EXCEPT ![r] = "done"]
             /\ UNCHANGED err
  /\ UNCHANGED <<request, username, message, p_data, toxicity, flagged,
                 p_calls, xai_calls, served>>

\* the response is sent and the invocation's bindings go out of scope
Complete(r) ==
  /\ pc[r] = "done"
  /\ pc' = [pc EXCEPT ![r] = "idle"]
  /\ request' = [request EXCEPT ![r] = Undefined]
  /\ username' = [username EXCEPT ![r] = Undefined]
  /\ message' = [message EXCEPT ![r] = Undefined]
  /\ p_data' = [p_data EXCEPT ![r] = Undefined]
  /\ toxicity' = [toxicity EXCEPT ![r] = Undefined]
  /\ flagged' = [flagged EXCEPT ![r] = FALSE]
  /\ suggestion' = [suggestion EXCEPT ![r] = Undefined]
  /\ xai_data' = [xai_data EXCEPT ![r] = Undefined]
  /\ err' = [err EXCEPT ![r] = "none"]
  /\ response' = [response EXCEPT ![r] = NoResponse]
  /\ p_calls' = [p_calls EXCEPT ![r] = 0]
  /\ xai_calls' = [xai_calls EXCEPT ![r] = 0]
  /\ UNCHANGED served

\* the steps of the invocations in R, each client sending at most cap requests
Step(R, cap) ==
  \E r \in R :
    \/ \E b \in RequestBodies : Receive(r, b, cap)
    \/ ParseBody(r)
    \/ \E ok \in BOOLEAN : PFetchDone(r, ok)
    \/ \E d \in PerspectiveBodies \cup {Unparseable} : PJsonDone(r, d)
    \/ \E ok \in BOOLEAN : XaiFetchDone(r, ok)
    \/ \E d \in XaiBodies \cup {Unparseable} : XaiJsonDone(r, d)
    \/ Complete(r)

Next == Step(Reqs, MaxServed)

Spec == Init /\ [][Next]_vars

\* one invocation at a time, a client sending one request more than the limit
NextRate == Step({1}, RATE_LIMIT + 1)

SpecRate == Init /\ [][NextRate]_vars

\* ------------------------------------------------- vocabulary of the claims
\* the field is absent from the body, or is the empty string
Lacks(b, key) ==
  \/ b.k # "obj"
  \/ key \notin DOMAIN b.v
  \/ b.v[key] = Str("")

\* the scoring response holds attributeScores.TOXICITY.summaryScore.value
HasValuePath(pd) ==
  /\ pd.k = "obj" /\ "attributeScores" \in DOMAIN pd.v
  /\ pd.v.attributeScores.k = "obj"
  /\ "TOXICITY" \in DOMAIN pd.v.attributeScores.v
  /\ pd.v.attributeScores.v.TOXICITY.k = "obj"
  /\ "summaryScore" \in DOMAIN pd.v.attributeScores.v.TOXICITY.v
  /\ pd.v.attributeScores.v.TOXICITY.v.summaryScore.k = "obj"
  /\ "value" \in DOMAIN pd.v.attributeScores.v.TOXICITY.v.summaryScore.v

\* the score the scoring response carries, 0.0 when it carries no number
ScoreOf(pd) ==
  IF HasValuePath(pd)
     /\ pd.v.attributeScores.v.TOXICITY.v.summaryScore.v.value.k = "num"
  THEN pd.v.attributeScores.v.TOXICITY.v.summaryScore.v.value
  ELSE Num(0)

\* the first completion choice of the generation response holds a non-empty text
HasFirstText(xd) ==
  /\ xd.k = "obj" /\ "choices" \in DOMAIN xd.v
  /\ xd.v.choices.k = "arr" /\ Len(xd.v.choices.v) >= 1
  /\ LET c == Head(xd.v.choices.v)
     IN /\ c.k = "obj" /\ "message" \in DOMAIN c.v
        /\ c.v.message.k = "obj" /\ "content" \in DOMAIN c.v.message.v
        /\ c.v.message.v.content.k = "str"
        /\ c.v.message.v.content.v # ""

FirstText(xd) == Head(xd.v.choices.v).v.message.v.content

Above(t) == t.k = "num" /\ t.v > 700

NonNull(x) == x.k \notin {"null", "undefined"}

\* the scoring call of invocation r was issued and failed (network or parse)
ScoringFailed(r) ==
  pc[r] = "done" /\ p_calls[r] >= 1 /\ p_data[r] = Undefined

\* the generation call of invocation r was issued and failed (network or parse)
GenerationFailed(r) ==
  pc[r] = "done" /\ xai_calls[r] >= 1 /\ xai_data[r] = Undefined

\* everything invocation r holds
Local(r) ==
  <<pc[r], request[r], username[r], message[r], p_data[r], toxicity[r],
    flagged[r], suggestion[r], xai_data[r], err[r], response[r], p_calls[r],
    xai_calls[r]>>

\* the response as a function of the request body, of the two services'
\* answers to this invocation and of the exception it caught
ResponseFor(b, pd, xd, e) ==
  IF e # "none" THEN InvalidRequestResponse(e)
  ELSE IF Lacks(b, "username") \/ Lacks(b, "message") THEN MissingFieldResponse
  ELSE IF Above(ScoreOf(pd))
       THEN Verdict(TRUE, ScoreOf(pd), IF HasFirstText(xd) THEN FirstText(xd) ELSE Null)
       ELSE Verdict(FALSE, ScoreOf(pd), Null)

\* -------------------------------------------------------------------- claims
\* C1: a request whose body lacks username or message (absent or empty) is
\* answered 400, and no call to either service has been issued by then.
C1_MissingFieldRejectedBeforeCalls ==
  \A r \in Reqs :
    (pc[r] = "done" /\ (Lacks(request[r], "username") \/ Lacks(request[r], "message")))
      => /\ response[r].status = 400
         /\ p_calls[r] = 0
         /\ xai_calls[r] = 0

C1_Witness ==
  \E r \in Reqs :
    /\ pc[r] = "done"
    /\ request[r] = Obj([username |-> Str("u1"), message |-> Str("")])
    /\ response[r] = MissingFieldResponse

\* C2: in every status-200 verdict, flagged equals (toxicity > 0.7); a score of
\* exactly 0.7 gives flagged = false.
C2_FlaggedIffAboveThreshold ==
  \A r \in Reqs :
    response[r].status = 200
      => response[r].flagged = Above(response[r].toxicity)

C2_Witness ==
  \E r \in Reqs :
    /\ response[r].status = 200
    /\ response[r].toxicity = Num(700)
    /\ response[r].flagged = FALSE

\* C3: in every verdict, suggestion is non-null exactly when flagged is true
\* and the generation call succeeded with a non-empty text in its first
\* choice; with a score of at most 0.7 the suggestion is null.
C3_SuggestionIffFlaggedAndText ==
  \A r \in Reqs :
    response[r].status = 200
      => /\ NonNull(response[r].suggestion)
              <=> /\ response[r].flagged
                  /\ xai_calls[r] = 1
                  /\ xai_data[r] # Undefined
                  /\ HasFirstText(xai_data[r])
         /\ ~Above(response[r].toxicity) => response[r].suggestion = Null

C3_Witness ==
  \E r \in Reqs :
    /\ response[r].status = 200
    /\ response[r].flagged
    /\ response[r].suggestion = Str("polite")

\* C4 (as claimed): when the scoring call fails at the network level or its
\* body cannot be parsed, the handler returns a 200 verdict with toxicity 0.0
\* and flagged = false.
C4_ScoringFailureFailsOpen ==
  \A r \in Reqs :
    ScoringFailed(r) => response[r] = Verdict(FALSE, Num(0), Null)

\* C5 (as claimed): when the score exceeds 0.7 and the generation call fails,
\* the handler returns a 200 verdict with flagged = true, the score obtained
\* and suggestion = null.
C5_GenerationFailureKeepsVerdict ==
  \A r \in Reqs :
    GenerationFailed(r) => response[r] = Verdict(TRUE, ScoreOf(p_data[r]), Null)

\* C6 (as claimed): every execution that ends in 400 has issued no external
\* call, and every execution that issued an external call ends in 200.
C6_ClientErrorOnlyBeforeCalls ==
  \A r \in Reqs :
    /\ response[r].status = 400 => p_calls[r] = 0 /\ xai_calls[r] = 0
    /\ (pc[r] = "done" /\ p_calls[r] + xai_calls[r] > 0) => response[r].status = 200

\* C7: when the scoring response parses but lacks the path
\* attributeScores.TOXICITY.summaryScore.value at some level (or is null), the
\* handler returns the 200 verdict {false, 0.0, null} and has not called the
\* generation service.
C7_MissingScorePathDefaultsToZero ==
  \A r \in Reqs :
    (pc[r] = "done" /\ p_data[r] # Undefined /\ ~HasValuePath(p_data[r]))
      => /\ response[r] = Verdict(FALSE, Num(0), Null)
         /\ xai_calls[r] = 0

C7_Witness ==
  \E r \in Reqs :
    /\ pc[r] = "done"
    /\ p_data[r] = Obj([attributeScores |-> Obj([TOXICITY |-> EmptyObj])])
    /\ response[r].status = 200

\* C8: concurrent invocations do not interfere: the response of each is the
\* function ResponseFor of its own request and of the answers to its own
\* calls, and no step of one invocation changes what another one holds.
C8_InvocationsIndependent ==
  /\ [](\A r \in Reqs :
          pc[r] = "done"
            => response[r] = ResponseFor(request[r], p_data[r], xai_data[r], err[r]))
  /\ [][\A r, q \in Reqs :
          (r # q /\ Local(r)' # Local(r)) => Local(q)' = Local(q)]_vars

C8_Witness ==
  \E r, q \in Reqs :
    /\ r # q
    /\ pc[r] = "done" /\ response[r].status = 200 /\ response[r].flagged
    /\ pc[q] = "done" /\ response[q].status = 200 /\ ~response[q].flagged
    /\ response[q].toxicity # Num(0)

\* C9 (as claimed): a request from a client that has already made 100 requests
\* this hour is answered 429.
C9_RateLimited ==
  \A r \in Reqs :
    (pc[r] = "done" /\ ClientOf(request[r]) \in Usernames
       /\ served[ClientOf(request[r])] > RATE_LIMIT)
      => response[r].status = 429

\* C10: each service is called at most once per request; the generation
\* service only after the scoring call completed with a score above 0.7; a
\* verdict with a score of at most 0.7 comes after exactly one call.
C10_CallsSequentialAtMostOnce ==
  \A r \in Reqs :
    /\ p_calls[r] <= 1
    /\ xai_calls[r] <= 1
    /\ xai_calls[r] >= 1
         => p_calls[r] = 1 /\ p_data[r] # Undefined /\ Above(ScoreOf(p_data[r]))
    /\ (response[r].status = 200 /\ ~Above(response[r].toxicity))
         => p_calls[r] + xai_calls[r] = 1

C10_Witness ==
  \E r \in Reqs :
    /\ pc[r] = "done" /\ response[r].status = 200
    /\ p_calls[r] = 1 /\ xai_calls[r] = 1

====
